---- MODULE Spec2Model ----
(***************************************************************************)
(* Model of the two scripts of the repository:                             *)
(*   data_parser.py  - read_csv / normalize_age / filter_by_country /      *)
(*                     get_average_age / load_and_process                  *)
(*   reviewer.py     - main / read_source_file / warn_if_large /           *)
(*                     run_code_review / print_review                      *)
(*                                                                         *)
(* Python objects live in a heap: `recs` holds the dict objects (a record  *)
(* id is an index into it) and `lists` the list objects (a list id is an   *)
(* index; a list is a sequence of record ids), so that in-place mutation   *)
(* and aliasing are visible.  Text is a tuple of one-character strings.    *)
(* Objects are never collected: a list or file object that a failed call   *)
(* leaves behind stays in the heap as the call left it.                    *)
(***************************************************************************)
EXTENDS Integers, Sequences, FiniteSets, TLC

\* ------------------------------------------------------------------ bounds
MaxRows == 2
MaxCalls == 2

\* ------------------------------------------------------------------ text
Whitespace == {" ", "\t", "\n"}
Digits == {"0", "1", "2", "3", "4", "5", "6", "7", "8", "9"}

DigitVal(c) ==
    CASE c = "0" -> 0 [] c = "1" -> 1 [] c = "2" -> 2 [] c = "3" -> 3
      [] c = "4" -> 4 [] c = "5" -> 5 [] c = "6" -> 6 [] c = "7" -> 7
      [] c = "8" -> 8 [] c = "9" -> 9

RECURSIVE LStrip(_)
LStrip(s) ==
    IF s # <<>> /\ Head(s) \in Whitespace THEN LStrip(Tail(s)) ELSE s

RECURSIVE RStrip(_)
RStrip(s) ==
    IF s # <<>> /\ s[Len(s)] \in Whitespace
    THEN RStrip(SubSeq(s, 1, Len(s) - 1))
    ELSE s

\* str.strip()
Strip(s) == RStrip(LStrip(s))

\* ------------------------------------------------------------------ values
\* A Python value: a str, an int or None, in one record shape.
PyStr(s) == [t |-> "str", s |-> s, n |-> 0]
PyInt(n) == [t |-> "int", s |-> <<>>, n |-> n]
PyNone == [t |-> "none", s |-> <<>>, n |-> 0]

RECURSIVE DigitsValue(_, _)
DigitsValue(s, acc) ==
    IF s = <<>> THEN acc
    ELSE IF Head(s) = "_" THEN DigitsValue(Tail(s), acc)
    ELSE DigitsValue(Tail(s), 10 * acc + DigitVal(Head(s)))

\* The digit part of an integer literal: digits, with single underscores
\* allowed between two digits.
IsDigitBody(s) ==
    /\ s # <<>>
    /\ \A i \in 1..Len(s) : s[i] \in Digits \cup {"_"}
    /\ s[1] \in Digits
    /\ s[Len(s)] \in Digits
    /\ \A i \in 1..(Len(s) - 1) : ~(s[i] = "_" /\ s[i + 1] = "_")

\* The builtin int(v): [outcome, n].
int(v) ==
    IF v.t = "int" THEN [outcome |-> "ok", n |-> v.n]
    ELSE IF v.t = "none" THEN [outcome |-> "TypeError", n |-> 0]
    ELSE LET st == Strip(v.s)
             signed == st # <<>> /\ st[1] \in {"+", "-"}
             body == IF signed THEN Tail(st) ELSE st
             mag == DigitsValue(body, 0)
         IN  IF IsDigitBody(body)
             THEN [outcome |-> "ok",
                   n |-> IF signed /\ st[1] = "-" THEN 0 - mag ELSE mag]
             ELSE [outcome |-> "ValueError", n |-> 0]

\* ------------------------------------------------------------------ inputs
\* The literals the model draws cell values and arguments from.
Kenya == <<"K", "e", "n", "y", "a">>
Uganda == <<"U", "g", "a", "n", "d", "a">>
Peru == <<"P", "e", "r", "u">>
NameA == <<"A">>
AgeTexts == {<<"3", "0">>, <<"4", "0">>, <<" ", "-", "7", "\n">>, <<"x">>}
Countries == {Kenya, Uganda}
Targets == {Kenya, Peru}
Paths == {"users.csv", "missing.csv"}

Header3 == <<"name", "age", "country">>
Header2 == <<"name", "age">>

\* Data rows as csv.reader yields them: full rows, a short row (the cells
\* after the first are missing) and a blank line.
Rows3 == {<<NameA, a, c>> : a \in AgeTexts, c \in Countries} \cup {<<NameA>>, <<>>}
Rows2 == {<<NameA, a>> : a \in {<<"3", "0">>, <<"x">>}}

SeqsUpTo(S, n) == UNION {[1..k -> S] : k \in 0..n}

\* The file behind "users.csv": its rows (header first), or bytes that do
\* not decode.  "missing.csv" does not exist.
CsvFiles ==
    {[decodable |-> TRUE, lines |-> <<Header3>> \o body] : body \in SeqsUpTo(Rows3, MaxRows)}
    \cup {[decodable |-> TRUE, lines |-> <<Header2>> \o body] : body \in SeqsUpTo(Rows2, 1)}
    \cup {[decodable |-> TRUE, lines |-> <<>>],
          [decodable |-> FALSE, lines |-> <<>>]}

\* ------------------------------------------------------------------ state
VARIABLES
    file,      \* data_parser: content of "users.csv"
    recs,      \* data_parser: heap of dict objects
    lists,     \* data_parser: heap of list objects (sequences of record ids)
    handles,   \* data_parser: one entry per file object opened: "open" / "closed"
    last,      \* data_parser: the last call: arguments, heap before it, outcome
    calls,     \* data_parser: number of calls made
    argv,         \* reviewer: sys.argv
    disk,         \* reviewer: what is on disk at the path given
    credential,   \* reviewer: whether the API key is available to the client
    service,      \* reviewer: how the remote service answers a request
    pc,           \* reviewer: position of the process in main
    stdout,       \* reviewer: the lines printed, in order
    uncaught,     \* reviewer: the exception that left main, "" if none
    exit_status,  \* reviewer: the exit status, -1 while running
    requests,     \* reviewer: calls of client.chat.completions.create
    reads,        \* reviewer: calls of path.read_text
    source_code,  \* reviewer: main's source_code (run-length text)
    review        \* reviewer: main's review

dataVars == <<file, recs, lists, handles, last, calls>>
reviewVars == <<argv, disk, credential, service, pc, stdout, uncaught,
                exit_status, requests, reads, source_code, review>>
vars == <<dataVars, reviewVars>>

\* ------------------------------------------------------------------ csv
RECURSIVE IndexOf(_, _, _)
IndexOf(seq, x, i) ==
    IF i > Len(seq) THEN 0
    ELSE IF seq[i] = x THEN i
    ELSE IndexOf(seq, x, i + 1)

\* One csv.DictReader row: zip(fieldnames, row), missing cells are None.
DictRow(fieldnames, row) ==
    [k \in {fieldnames[i] : i \in 1..Len(fieldnames)} |->
        LET i == IndexOf(fieldnames, k, 1)
        IN  IF i <= Len(row) THEN PyStr(row[i]) ELSE PyNone]

\* csv.DictReader over the rows of a file: the first row names the fields,
\* blank rows are skipped.
DictReader(lines) ==
    IF lines = <<>> THEN <<>>
    ELSE LET data == SelectSeq(Tail(lines), LAMBDA r : r # <<>>)
         IN  [i \in 1..Len(data) |-> DictRow(Head(lines), data[i])]

\* ------------------------------------------------------------------ data_parser.py
\* read_csv(filepath) on heap (rs, ls, hs): [outcome, recs, lists, handles, ret].
read_csv(fl, filepath, rs, ls, hs) ==
    IF filepath # "users.csv"
    THEN [outcome |-> "FileNotFoundError", recs |-> rs, lists |-> ls,
          handles |-> hs, ret |-> 0]
    ELSE LET opened == Append(hs, "open")
             h == Len(opened)
         IN  IF ~fl.decodable
             THEN [outcome |-> "UnicodeDecodeError", recs |-> rs, lists |-> ls,
                   handles |-> opened, ret |-> 0]
             ELSE LET rows == DictReader(fl.lines)
                      ids == [i \in 1..Len(rows) |-> Len(rs) + i]
                  IN  [outcome |-> "ok", recs |-> rs \o rows,
                       lists |-> Append(ls, ids),
                       handles |-> [opened EXCEPT ![h] = "closed"],
                       ret |-> Len(ls) + 1]

\* The loop of normalize_age from position i on: [outcome, recs].
RECURSIVE normalize_loop(_, _, _)
normalize_loop(rs, ids, i) ==
    IF i > Len(ids) THEN [outcome |-> "ok", recs |-> rs]
    ELSE LET r == rs[ids[i]]
         IN  IF "age" \notin DOMAIN r
             THEN [outcome |-> "KeyError", recs |-> rs]
             ELSE LET c == int(r["age"])
                  IN  IF c.outcome # "ok"
                      THEN [outcome |-> c.outcome, recs |-> rs]
                      ELSE normalize_loop(
                               [rs EXCEPT ![ids[i]] = [r EXCEPT !["age"] = PyInt(c.n)]],
                               ids, i + 1)

\* normalize_age(records), records being list l: [outcome, recs, ret].
normalize_age(rs, ls, l) ==
    LET res == normalize_loop(rs, ls[l], 1)
    IN  [outcome |-> res.outcome, recs |-> res.recs,
         ret |-> IF res.outcome = "ok" THEN l ELSE 0]

\* The loop of filter_by_country from position i on: [outcome, filtered].
RECURSIVE filter_loop(_, _, _, _, _)
filter_loop(rs, ids, country, i, filtered) ==
    IF i > Len(ids) THEN [outcome |-> "ok", filtered |-> filtered]
    ELSE LET r == rs[ids[i]]
         IN  IF "country" \notin DOMAIN r
             THEN [outcome |-> "KeyError", filtered |-> filtered]
             ELSE filter_loop(rs, ids, country, i + 1,
                      IF r["country"] = PyStr(country)
                      THEN Append(filtered, ids[i])
                      ELSE filtered)

\* Mutant: the loop stops one record short of the end of the list.
filter_by_country_short(rs, ls, l, country) ==
    LET res == filter_loop(rs, SubSeq(ls[l], 1, Len(ls[l]) - 1), country, 1, <<>>)
    IN  IF res.outcome = "ok"
        THEN [outcome |-> "ok", lists |-> Append(ls, res.filtered), ret |-> Len(ls) + 1]
        ELSE [outcome |-> res.outcome, lists |-> ls, ret |-> 0]

\* Mutant: the non-matching records are removed from the input list itself,
\* which is returned.
filter_by_country_in_place(rs, ls, l, country) ==
    LET res == filter_loop(rs, ls[l], country, 1, <<>>)
    IN  IF res.outcome = "ok"
        THEN [outcome |-> "ok", lists |-> [ls EXCEPT ![l] = res.filtered], ret |-> l]
        ELSE [outcome |-> res.outcome, lists |-> ls, ret |-> 0]

\* filter_by_country(records, country): [outcome, lists, ret].
filter_by_country(rs, ls, l, country) ==
    LET res == filter_loop(rs, ls[l], country, 1, <<>>)
    IN  IF res.outcome = "ok"
        THEN [outcome |-> "ok", lists |-> Append(ls, res.filtered), ret |-> Len(ls) + 1]
        ELSE [outcome |-> res.outcome, lists |-> ls, ret |-> 0]

\* The loop of get_average_age from position i on: [outcome, total].
RECURSIVE average_loop(_, _, _, _)
average_loop(rs, ids, i, total) ==
    IF i > Len(ids) THEN [outcome |-> "ok", total |-> total]
    ELSE LET r == rs[ids[i]]
         IN  IF "age" \notin DOMAIN r
             THEN [outcome |-> "KeyError", total |-> total]
             ELSE IF r["age"].t # "int"
             THEN [outcome |-> "TypeError", total |-> total]
             ELSE average_loop(rs, ids, i + 1, total + r["age"].n)

\* Mutant: an empty list is answered with 0 instead of dividing.
get_average_age_guarded(rs, ls, l) ==
    LET res == average_loop(rs, ls[l], 1, 0)
    IN  IF res.outcome # "ok"
        THEN [outcome |-> res.outcome, num |-> 0, den |-> 0]
        ELSE IF Len(ls[l]) = 0
        THEN [outcome |-> "ok", num |-> 0, den |-> 1]
        ELSE [outcome |-> "ok", num |-> res.total, den |-> Len(ls[l])]

\* get_average_age(records): [outcome, num, den]; the quotient total / len
\* is kept as the fraction num / den.
get_average_age(rs, ls, l) ==
    LET res == average_loop(rs, ls[l], 1, 0)
    IN  IF res.outcome # "ok"
        THEN [outcome |-> res.outcome, num |-> 0, den |-> 0]
        ELSE IF Len(ls[l]) = 0
        THEN [outcome |-> "ZeroDivisionError", num |-> 0, den |-> 0]
        ELSE [outcome |-> "ok", num |-> res.total, den |-> Len(ls[l])]

\* Mutant: the rows are filtered first and only the matching ones normalized.
load_and_process_filter_first(fl, filepath, country, rs, ls, hs) ==
    LET rd == read_csv(fl, filepath, rs, ls, hs)
    IN  IF rd.outcome # "ok" THEN rd
        ELSE LET ft == filter_by_country(rd.recs, rd.lists, rd.ret, country)
             IN  IF ft.outcome # "ok"
                 THEN [outcome |-> ft.outcome, recs |-> rd.recs, lists |-> rd.lists,
                       handles |-> rd.handles, ret |-> 0]
                 ELSE LET nm == normalize_age(rd.recs, ft.lists, ft.ret)
                      IN  [outcome |-> nm.outcome, recs |-> nm.recs, lists |-> ft.lists,
                           handles |-> rd.handles, ret |-> nm.ret]

\* load_and_process(filepath, country): [outcome, recs, lists, handles, ret].
load_and_process(fl, filepath, country, rs, ls, hs) ==
    LET rd == read_csv(fl, filepath, rs, ls, hs)
    IN  IF rd.outcome # "ok" THEN rd
        ELSE LET nm == normalize_age(rd.recs, rd.lists, rd.ret)
             IN  IF nm.outcome # "ok"
                 THEN [outcome |-> nm.outcome, recs |-> nm.recs, lists |-> rd.lists,
                       handles |-> rd.handles, ret |-> 0]
                 ELSE LET ft == filter_by_country(nm.recs, rd.lists, nm.ret, country)
                      IN  [outcome |-> ft.outcome, recs |-> nm.recs, lists |-> ft.lists,
                           handles |-> rd.handles, ret |-> ft.ret]

\* ------------------------------------------------------------------ calls
NoCall ==
    [op |-> "none", path |-> "", list |-> 0, country |-> <<>>,
     outcome |-> "ok", ret |-> 0, num |-> 0, den |-> 0,
     recs |-> <<>>, lists |-> <<>>, handles |-> <<>>]

\* The record of a call: its arguments, the heap as it was before the call,
\* and what came back.
Call(op, path, l, country, outcome, ret, num, den) ==
    [op |-> op, path |-> path, list |-> l, country |-> country,
     outcome |-> outcome, ret |-> ret, num |-> num, den |-> den,
     recs |-> recs, lists |-> lists, handles |-> handles]

ReviewIdle ==
    /\ argv = <<>>
    /\ disk = [exists |-> FALSE, readable |-> FALSE, decodable |-> FALSE, contents |-> <<>>]
    /\ credential = FALSE
    /\ service = [outcome |-> "ok", completion |-> ""]
    /\ pc = "exit"
    /\ stdout = <<>>
    /\ uncaught = ""
    /\ exit_status = 0
    /\ requests = 0
    /\ reads = 0
    /\ source_code = <<>>
    /\ review = ""

InitData ==
    /\ file \in CsvFiles
    /\ recs = <<>>
    /\ lists = <<>>
    /\ handles = <<>>
    /\ last = NoCall
    /\ calls = 0
    /\ ReviewIdle

ReadCsv ==
    /\ calls < MaxCalls
    /\ \E p \in Paths :
        LET res == read_csv(file, p, recs, lists, handles)
        IN  /\ recs' = res.recs
            /\ lists' = res.lists
            /\ handles' = res.handles
            /\ last' = Call("read_csv", p, 0, <<>>, res.outcome, res.ret, 0, 0)
    /\ calls' = calls + 1
    /\ UNCHANGED <<file, reviewVars>>

NormalizeAge ==
    /\ calls < MaxCalls
    /\ \E l \in 1..Len(lists) :
        LET res == normalize_age(recs, lists, l)
        IN  /\ recs' = res.recs
            /\ last' = Call("normalize_age", "", l, <<>>, res.outcome, res.ret, 0, 0)
    /\ calls' = calls + 1
    /\ UNCHANGED <<file, lists, handles, reviewVars>>

FilterByCountry ==
    /\ calls < MaxCalls
    /\ \E l \in 1..Len(lists), c \in Targets :
        LET res == filter_by_country(recs, lists, l, c)
        IN  /\ lists' = res.lists
            /\ last' = Call("filter_by_country", "", l, c, res.outcome, res.ret, 0, 0)
    /\ calls' = calls + 1
    /\ UNCHANGED <<file, recs, handles, reviewVars>>

GetAverageAge ==
    /\ calls < MaxCalls
    /\ \E l \in 1..Len(lists) :
        LET res == get_average_age(recs, lists, l)
        IN  last' = Call("get_average_age", "", l, <<>>, res.outcome, 0, res.num, res.den)
    /\ calls' = calls + 1
    /\ UNCHANGED <<file, recs, lists, handles, reviewVars>>

LoadAndProcess ==
    /\ calls < MaxCalls
    /\ \E p \in Paths, c \in Targets :
        LET res == load_and_process(file, p, c, recs, lists, handles)
        IN  /\ recs' = res.recs
            /\ lists' = res.lists
            /\ handles' = res.handles
            /\ last' = Call("load_and_process", p, 0, c, res.outcome, res.ret, 0, 0)
    /\ calls' = calls + 1
    /\ UNCHANGED <<file, reviewVars>>

NextData ==
    \/ ReadCsv
    \/ NormalizeAge
    \/ FilterByCountry
    \/ GetAverageAge
    \/ LoadAndProcess

SpecData == InitData /\ [][NextData]_vars

\* ------------------------------------------------------------------ reviewer.py
MAX_FILE_CHARS == 12000

\* The lines the script prints (interpolated values left out).
MsgUsage == "Usage: python review.py <path_to_file.py>"
MsgNotFound == "Error: File not found"
MsgWrongType == "Error: Expected a .py file"
MsgReadError == "Error: Could not read file"
MsgEmpty == "Error: The file is empty."
MsgWarning == "Warning: This file is large"
MsgReviewing == "Reviewing"
MsgApiError == "OpenAI API error"
Separator == "============================================================"
MsgHeader == "  CODE REVIEW:"
MsgModel == "  Model: gpt-4o"

Contains(seq, x) == \E i \in 1..Len(seq) : seq[i] = x

\* File contents are run-length text: a sequence of <<character, count>>.
RECURSIVE RunsLen(_)
RunsLen(runs) ==
    IF runs = <<>> THEN 0 ELSE Head(runs)[2] + RunsLen(Tail(runs))

RECURSIVE RunsLStrip(_)
RunsLStrip(runs) ==
    IF runs # <<>> /\ Head(runs)[1] \in Whitespace THEN RunsLStrip(Tail(runs)) ELSE runs

RECURSIVE RunsRStrip(_)
RunsRStrip(runs) ==
    IF runs # <<>> /\ runs[Len(runs)][1] \in Whitespace
    THEN RunsRStrip(SubSeq(runs, 1, Len(runs) - 1))
    ELSE runs

\* contents.strip()
RunsStrip(runs) == RunsRStrip(RunsLStrip(runs))

RECURSIVE LastIndexOf(_, _, _)
LastIndexOf(s, c, i) ==
    IF i = 0 THEN 0
    ELSE IF s[i] = c THEN i
    ELSE LastIndexOf(s, c, i - 1)

\* Path(p).name: the final component.
PathName(p) == SubSeq(p, LastIndexOf(p, "/", Len(p)) + 1, Len(p))

\* Path(p).suffix: from the last dot of the name on, when that dot is
\* neither its first nor its last character.
PathSuffix(p) ==
    LET name == PathName(p)
        i == LastIndexOf(name, ".", Len(name))
    IN  IF 1 < i /\ i < Len(name) THEN SubSeq(name, i, Len(name)) ELSE <<>>

DotPy == <<".", "p", "y">>

\* The inputs of a run.
ReviewPaths ==
    {<<"a", ".", "p", "y">>,
     <<"a", ".", "t", "x", "t">>,
     <<"a", ".", "p", "y", ".", "t", "x", "t">>,
     <<"d", ".", "p", "y", "/", "b">>,
     <<"d", "/", "b", ".", "p", "y">>,
     <<".", "p", "y">>}
Argvs ==
    {<<"review.py">>}
    \cup {<<"review.py", p>> : p \in ReviewPaths}
    \cup {<<"review.py", <<"a", ".", "p", "y">>, <<"b", ".", "p", "y">>>>}
Contents ==
    {<<>>,
     <<<<" ", 2>>, <<"\n", 1>>>>,
     <<<<"\n", 1>>, <<"x", 3>>, <<"\n", 1>>>>,
     <<<<"x", MAX_FILE_CHARS>>>>,
     <<<<"x", MAX_FILE_CHARS>>, <<"\n", 1>>>>}
Disks ==
    {[exists |-> FALSE, readable |-> FALSE, decodable |-> FALSE, contents |-> <<>>],
     [exists |-> TRUE, readable |-> FALSE, decodable |-> FALSE, contents |-> <<>>],
     [exists |-> TRUE, readable |-> TRUE, decodable |-> FALSE, contents |-> <<>>]}
    \cup {[exists |-> TRUE, readable |-> TRUE, decodable |-> TRUE, contents |-> c] :
            c \in Contents}
Services ==
    {[outcome |-> "ok", completion |-> "[WARNING] Line 11"],
     [outcome |-> "APIConnectionError", completion |-> ""],
     [outcome |-> "AuthenticationError", completion |-> ""],
     [outcome |-> "RateLimitError", completion |-> ""]}

\* Mutant: the extension is checked before the existence of the path.
read_source_file_suffix_first(filepath, d) ==
    IF PathSuffix(filepath) # DotPy
    THEN [returned |-> FALSE, out |-> <<MsgWrongType>>, status |-> 1,
          uncaught |-> "", reads |-> 0, contents |-> <<>>]
    ELSE IF ~d.exists
    THEN [returned |-> FALSE, out |-> <<MsgNotFound>>, status |-> 1,
          uncaught |-> "", reads |-> 0, contents |-> <<>>]
    ELSE IF ~d.readable
    THEN [returned |-> FALSE, out |-> <<MsgReadError>>, status |-> 1,
          uncaught |-> "", reads |-> 1, contents |-> <<>>]
    ELSE IF ~d.decodable
    THEN [returned |-> FALSE, out |-> <<>>, status |-> 1,
          uncaught |-> "UnicodeDecodeError", reads |-> 1, contents |-> <<>>]
    ELSE IF RunsStrip(d.contents) = <<>>
    THEN [returned |-> FALSE, out |-> <<MsgEmpty>>, status |-> 1,
          uncaught |-> "", reads |-> 1, contents |-> <<>>]
    ELSE [returned |-> TRUE, out |-> <<>>, status |-> 0,
          uncaught |-> "", reads |-> 1, contents |-> d.contents]

\* Mutant: an empty file is reported but the process is not ended.
read_source_file_no_exit(filepath, d) ==
    IF ~d.exists
    THEN [returned |-> FALSE, out |-> <<MsgNotFound>>, status |-> 1,
          uncaught |-> "", reads |-> 0, contents |-> <<>>]
    ELSE IF PathSuffix(filepath) # DotPy
    THEN [returned |-> FALSE, out |-> <<MsgWrongType>>, status |-> 1,
          uncaught |-> "", reads |-> 0, contents |-> <<>>]
    ELSE IF ~d.readable
    THEN [returned |-> FALSE, out |-> <<MsgReadError>>, status |-> 1,
          uncaught |-> "", reads |-> 1, contents |-> <<>>]
    ELSE IF ~d.decodable
    THEN [returned |-> FALSE, out |-> <<>>, status |-> 1,
          uncaught |-> "UnicodeDecodeError", reads |-> 1, contents |-> <<>>]
    ELSE IF RunsStrip(d.contents) = <<>>
    THEN [returned |-> TRUE, out |-> <<MsgEmpty>>, status |-> 0,
          uncaught |-> "", reads |-> 1, contents |-> d.contents]
    ELSE [returned |-> TRUE, out |-> <<>>, status |-> 0,
          uncaught |-> "", reads |-> 1, contents |-> d.contents]

\* read_source_file(filepath) with d on disk:
\* [returned, out, status, uncaught, reads, contents].
read_source_file(filepath, d) ==
    IF ~d.exists
    THEN [returned |-> FALSE, out |-> <<MsgNotFound>>, status |-> 1,
          uncaught |-> "", reads |-> 0, contents |-> <<>>]
    ELSE IF PathSuffix(filepath) # DotPy
    THEN [returned |-> FALSE, out |-> <<MsgWrongType>>, status |-> 1,
          uncaught |-> "", reads |-> 0, contents |-> <<>>]
    ELSE IF ~d.readable
    THEN [returned |-> FALSE, out |-> <<MsgReadError>>, status |-> 1,
          uncaught |-> "", reads |-> 1, contents |-> <<>>]
    ELSE IF ~d.decodable
    THEN [returned |-> FALSE, out |-> <<>>, status |-> 1,
          uncaught |-> "UnicodeDecodeError", reads |-> 1, contents |-> <<>>]
    ELSE IF RunsStrip(d.contents) = <<>>
    THEN [returned |-> FALSE, out |-> <<MsgEmpty>>, status |-> 1,
          uncaught |-> "", reads |-> 1, contents |-> <<>>]
    ELSE [returned |-> TRUE, out |-> <<>>, status |-> 0,
          uncaught |-> "", reads |-> 1, contents |-> d.contents]

\* warn_if_large(source_code): the lines it prints.
warn_if_large(code) ==
    IF RunsLen(code) > MAX_FILE_CHARS THEN <<MsgWarning>> ELSE <<>>

\* Mutant: a failed request is reported and an empty review returned.
run_code_review_swallow(cred, svc) ==
    IF ~cred
    THEN [returned |-> FALSE, out |-> <<>>, status |-> 1,
          uncaught |-> "OpenAIError", requests |-> 0, review |-> ""]
    ELSE IF svc.outcome # "ok"
    THEN [returned |-> TRUE, out |-> <<MsgApiError>>, status |-> 0,
          uncaught |-> "", requests |-> 1, review |-> ""]
    ELSE [returned |-> TRUE, out |-> <<>>, status |-> 0,
          uncaught |-> "", requests |-> 1, review |-> svc.completion]

\* Mutant: a failed request is sent a second time before giving up.
run_code_review_retry(cred, svc) ==
    IF ~cred
    THEN [returned |-> FALSE, out |-> <<>>, status |-> 1,
          uncaught |-> "OpenAIError", requests |-> 0, review |-> ""]
    ELSE IF svc.outcome # "ok"
    THEN [returned |-> FALSE, out |-> <<MsgApiError>>, status |-> 1,
          uncaught |-> "", requests |-> 2, review |-> ""]
    ELSE [returned |-> TRUE, out |-> <<>>, status |-> 0,
          uncaught |-> "", requests |-> 1, review |-> svc.completion]

\* run_code_review(source_code, filename), with the credential and the
\* service's answer: [returned, out, status, uncaught, requests, review].
run_code_review(cred, svc) ==
    IF ~cred
    THEN [returned |-> FALSE, out |-> <<>>, status |-> 1,
          uncaught |-> "OpenAIError", requests |-> 0, review |-> ""]
    ELSE IF svc.outcome # "ok"
    THEN [returned |-> FALSE, out |-> <<MsgApiError>>, status |-> 1,
          uncaught |-> "", requests |-> 1, review |-> ""]
    ELSE [returned |-> TRUE, out |-> <<>>, status |-> 0,
          uncaught |-> "", requests |-> 1, review |-> svc.completion]

\* print_review(review, filename): the lines it prints.
print_review(rv) ==
    <<Separator, MsgHeader, MsgModel, Separator, rv, Separator>>

DataIdle ==
    /\ file = [decodable |-> TRUE, lines |-> <<>>]
    /\ recs = <<>>
    /\ lists = <<>>
    /\ handles = <<>>
    /\ last = NoCall
    /\ calls = 0

InitReview ==
    /\ argv \in Argvs
    /\ disk \in Disks
    /\ credential \in BOOLEAN
    /\ service \in Services
    /\ pc = "main"
    /\ stdout = <<>>
    /\ uncaught = ""
    /\ exit_status = -1
    /\ requests = 0
    /\ reads = 0
    /\ source_code = <<>>
    /\ review = ""
    /\ DataIdle

\* main, lines 178-183: the argument count.
Main ==
    /\ pc = "main"
    /\ IF Len(argv) # 2
       THEN /\ stdout' = Append(stdout, MsgUsage)
            /\ exit_status' = 1
            /\ pc' = "exit"
       ELSE /\ pc' = "read_source_file"
            /\ UNCHANGED <<stdout, exit_status>>
    /\ UNCHANGED <<argv, disk, credential, service, uncaught, requests, reads,
                   source_code, review, dataVars>>

\* main, line 185.
ReadSourceFile ==
    /\ pc = "read_source_file"
    /\ LET res == read_source_file(argv[2], disk)
       IN  /\ stdout' = stdout \o res.out
           /\ uncaught' = res.uncaught
           /\ reads' = reads + res.reads
           /\ source_code' = res.contents
           /\ IF res.returned
              THEN pc' = "warn_if_large" /\ UNCHANGED exit_status
              ELSE pc' = "exit" /\ exit_status' = res.status
    /\ UNCHANGED <<argv, disk, credential, service, requests, review, dataVars>>

\* main, line 186.
WarnIfLarge ==
    /\ pc = "warn_if_large"
    /\ stdout' = stdout \o warn_if_large(source_code)
    /\ pc' = "announce"
    /\ UNCHANGED <<argv, disk, credential, service, uncaught, exit_status, requests,
                   reads, source_code, review, dataVars>>

\* main, line 188.
Announce ==
    /\ pc = "announce"
    /\ stdout' = Append(stdout, MsgReviewing)
    /\ pc' = "run_code_review"
    /\ UNCHANGED <<argv, disk, credential, service, uncaught, exit_status, requests,
                   reads, source_code, review, dataVars>>

\* main, line 190.
RunCodeReview ==
    /\ pc = "run_code_review"
    /\ LET res == run_code_review(credential, service)
       IN  /\ stdout' = stdout \o res.out
           /\ uncaught' = res.uncaught
           /\ requests' = requests + res.requests
           /\ review' = res.review
           /\ IF res.returned
              THEN pc' = "print_review" /\ UNCHANGED exit_status
              ELSE pc' = "exit" /\ exit_status' = res.status
    /\ UNCHANGED <<argv, disk, credential, service, reads, source_code, dataVars>>

\* main, line 191, and the return of main.
PrintReview ==
    /\ pc = "print_review"
    /\ stdout' = stdout \o print_review(review)
    /\ exit_status' = 0
    /\ pc' = "exit"
    /\ UNCHANGED <<argv, disk, credential, service, uncaught, requests, reads,
                   source_code, review, dataVars>>

NextReview ==
    \/ Main
    \/ ReadSourceFile
    \/ WarnIfLarge
    \/ Announce
    \/ RunCodeReview
    \/ PrintReview

SpecReview == InitReview /\ [][NextReview]_vars

\* ================================================================== claims
\* ------------------------------------------------------------------ helpers
\* The list a call was given, as it was before the call.
InputList == last.lists[last.list]

HasIntAge(r) == "age" \in DOMAIN r /\ r["age"].t = "int"

RECURSIVE SumAges(_, _)
\* The sum of the ages of the records ids[1..k], taken from the last one back.
SumAges(ids, k) ==
    IF k = 0 THEN 0 ELSE recs[ids[k]]["age"].n + SumAges(ids, k - 1)

\* The rows csv.DictReader makes of "users.csv", and the first of them whose
\* age int() rejects (0 if none).
FileRows == DictReader(file.lines)
AgeRejected(r) == "age" \notin DOMAIN r \/ int(r["age"]).outcome # "ok"
FirstRejected ==
    IF \E i \in 1..Len(FileRows) : AgeRejected(FileRows[i])
    THEN CHOOSE i \in 1..Len(FileRows) :
            /\ AgeRejected(FileRows[i])
            /\ \A j \in 1..(i - 1) : ~AgeRejected(FileRows[j])
    ELSE 0

\* ------------------------------------------------------------------ C1
\* C1: normalize_age is all-or-nothing: after a call either it succeeded
\* and every record of the RecordSet has an integer age, or it failed and
\* no record has been changed (the heap of records is as before the call).
C1_AllOrNothing ==
    last.op = "normalize_age" =>
        \/ /\ last.outcome = "ok"
           /\ \A i \in 1..Len(InputList) : HasIntAge(recs[InputList[i]])
        \/ /\ last.outcome # "ok"
           /\ recs = last.recs

\* ------------------------------------------------------------------ C2
\* C2: whenever read_csv has been left, by return or by exception, every
\* file handle it opened is closed.
C2_HandleReleased ==
    \A h \in 1..Len(handles) : handles[h] = "closed"

\* ------------------------------------------------------------------ C3
\* C3: on a RecordSet whose records all have a country, filter_by_country
\* succeeds and returns exactly the subsequence of the input whose country
\* equals the target: only matching records of the input, all of them, in
\* the input's order; with no match the result is the empty list.
C3_FilterSubsequence ==
    (/\ last.op = "filter_by_country"
     /\ \A i \in 1..Len(InputList) : "country" \in DOMAIN last.recs[InputList[i]])
    =>
    LET Matches(id) == last.recs[id]["country"] = PyStr(last.country)
        out == lists[last.ret]
    IN  /\ last.outcome = "ok"
        /\ last.ret \in 1..Len(lists)
        /\ \A k \in 1..Len(out) : Contains(InputList, out[k]) /\ Matches(out[k])
        /\ \A i \in 1..Len(InputList) : Matches(InputList[i]) => Contains(out, InputList[i])
        /\ out = SelectSeq(InputList, Matches)
        /\ (~\E i \in 1..Len(InputList) : Matches(InputList[i])) => out = <<>>

C3_Witness ==
    /\ last.op = "filter_by_country"
    /\ last.outcome = "ok"
    /\ Len(InputList) = 2
    /\ Len(lists[last.ret]) = 1
    /\ lists[last.ret][1] = InputList[2]

\* ------------------------------------------------------------------ C4
\* C4: on a RecordSet of records with integer ages, get_average_age returns
\* (sum of the ages) / (number of records) when there is a record, and
\* fails with ZeroDivisionError, returning nothing, when there is none.
C4_Average ==
    (/\ last.op = "get_average_age"
     /\ \A i \in 1..Len(InputList) : HasIntAge(recs[InputList[i]]))
    =>
    IF Len(InputList) = 0
    THEN last.outcome = "ZeroDivisionError"
    ELSE /\ last.outcome = "ok"
         /\ last.num = SumAges(InputList, Len(InputList))
         /\ last.den = Len(InputList)

C4_Witness ==
    /\ last.op = "get_average_age"
    /\ last.outcome = "ok"
    /\ last.den = 2
    /\ last.num = 70

\* ------------------------------------------------------------------ C9
\* C9: load_and_process reads, then normalizes every row, then filters: a
\* failure of the read propagates; else the first row int() rejects, in
\* any country, aborts the call with that row's error and nothing is
\* returned; else the result is the list of the rows whose country is the
\* target, in row order, each with its age as an integer.
C9_Pipeline ==
    last.op = "load_and_process" =>
        IF last.path # "users.csv"
        THEN last.outcome = "FileNotFoundError" /\ last.ret = 0
        ELSE IF ~file.decodable
        THEN last.outcome = "UnicodeDecodeError" /\ last.ret = 0
        ELSE IF FirstRejected # 0
        THEN /\ last.ret = 0
             /\ last.outcome =
                    IF "age" \in DOMAIN FileRows[FirstRejected]
                    THEN int(FileRows[FirstRejected]["age"]).outcome
                    ELSE "KeyError"
        ELSE IF \E i \in 1..Len(FileRows) : "country" \notin DOMAIN FileRows[i]
        THEN last.outcome = "KeyError" /\ last.ret = 0
        ELSE LET want == SelectSeq(FileRows,
                             LAMBDA r : r["country"] = PyStr(last.country))
                 out == lists[last.ret]
             IN  /\ last.outcome = "ok"
                 /\ last.ret \in 1..Len(lists)
                 /\ Len(out) = Len(want)
                 /\ \A k \in 1..Len(out) :
                        /\ recs[out[k]]["country"] = PyStr(last.country)
                        /\ recs[out[k]]["age"] = PyInt(int(want[k]["age"]).n)
                        /\ recs[out[k]]["name"] = want[k]["name"]
                 /\ \A k \in 1..(Len(out) - 1) : out[k] < out[k + 1]

\* A row of another country with a non-integer age, after a matching row
\* with an integer age, aborts the call.
C9_Witness ==
    /\ last.op = "load_and_process"
    /\ last.outcome = "ValueError"
    /\ Len(FileRows) = 2
    /\ FirstRejected = 2
    /\ FileRows[1]["country"] = PyStr(last.country)
    /\ FileRows[2]["country"] # PyStr(last.country)

\* ------------------------------------------------------------------ C10
\* C10: filter_by_country leaves its input alone: after a call, successful
\* or failing, every record and every list that existed before the call is
\* as it was, and a returned list is a new list object, not the input.
C10_InputUntouched ==
    last.op = "filter_by_country" =>
        /\ recs = last.recs
        /\ Len(lists) >= Len(last.lists)
        /\ SubSeq(lists, 1, Len(last.lists)) = last.lists
        /\ last.outcome = "ok" =>
              /\ last.ret # last.list
              /\ last.ret \notin 1..Len(last.lists)
              /\ last.ret \in 1..Len(lists)
        /\ last.outcome # "ok" => lists = last.lists

C10_Witness ==
    /\ last.op = "filter_by_country"
    /\ last.outcome = "ok"
    /\ Len(InputList) = 2
    /\ lists[last.ret] = <<InputList[1]>>
    /\ lists[last.list] = InputList

\* ------------------------------------------------------------------ reviewer helpers
ArgsOk == Len(argv) = 2

\* What read_source_file must turn down, read off the inputs of the run.
LoaderRejects ==
    /\ ArgsOk
    /\ \/ ~disk.exists
       \/ PathSuffix(argv[2]) # DotPy
       \/ ~disk.readable
       \/ ~disk.decodable
       \/ RunsStrip(disk.contents) = <<>>

\* read_source_file has been called and left.
LoaderLeft == ArgsOk /\ pc \notin {"main", "read_source_file"}

\* read_source_file has returned its content to main.
ContentReturned ==
    \/ pc \in {"warn_if_large", "announce", "run_code_review", "print_review"}
    \/ pc = "exit" /\ Contains(stdout, MsgReviewing)

\* run_code_review has been called and left.
ReviewLeft ==
    \/ pc = "print_review"
    \/ pc = "exit" /\ Contains(stdout, MsgReviewing)

\* A diagnostic has been printed: one of the script's error lines, or the
\* interpreter's traceback of the exception that left main.
DiagnosticPrinted ==
    \/ uncaught # ""
    \/ \E m \in {MsgUsage, MsgNotFound, MsgWrongType, MsgReadError, MsgEmpty, MsgApiError} :
          Contains(stdout, m)

BlockPrinted == Contains(stdout, MsgHeader) \/ Contains(stdout, Separator)

\* ------------------------------------------------------------------ C5
\* C5: read_source_file checks existence, then the extension, then
\* non-emptiness, and stops at the first check that fails: a missing path
\* gives "not found" whatever its extension, an existing path without the
\* .py suffix gives "wrong type" without its content being read, an
\* existing readable .py file that is blank gives "empty file"; each ends
\* the process with status 1 and its own message, and content is returned
\* only when all three checks pass.
C5_ValidationOrder ==
    LoaderLeft =>
        /\ ~disk.exists =>
              /\ stdout = <<MsgNotFound>>
              /\ pc = "exit" /\ exit_status = 1 /\ reads = 0
        /\ (disk.exists /\ PathSuffix(argv[2]) # DotPy) =>
              /\ stdout = <<MsgWrongType>>
              /\ pc = "exit" /\ exit_status = 1 /\ reads = 0
        /\ (/\ disk.exists /\ PathSuffix(argv[2]) = DotPy
            /\ disk.readable /\ disk.decodable
            /\ RunsStrip(disk.contents) = <<>>) =>
              /\ stdout = <<MsgEmpty>>
              /\ pc = "exit" /\ exit_status = 1
        /\ Cardinality({MsgNotFound, MsgWrongType, MsgEmpty}) = 3
        /\ ContentReturned =>
              /\ disk.exists
              /\ PathSuffix(argv[2]) = DotPy
              /\ RunsStrip(disk.contents) # <<>>
              /\ source_code = disk.contents

\* A missing path that also has the wrong extension: "not found" wins.
C5_Witness ==
    /\ LoaderLeft
    /\ ~disk.exists
    /\ PathSuffix(argv[2]) # DotPy
    /\ stdout = <<MsgNotFound>>
    /\ exit_status = 1

\* ------------------------------------------------------------------ C6
\* C6: a run that ends in a usage error or in a failure of
\* read_source_file never calls the remote service; a request is made only
\* after read_source_file has returned the content.
C6_NoRequestBeforeContent ==
    /\ (~ArgsOk \/ LoaderRejects) => requests = 0
    /\ requests > 0 =>
          /\ ArgsOk
          /\ ContentReturned
          /\ reads = 1
          /\ source_code = disk.contents
          /\ RunsStrip(source_code) # <<>>

\* An empty .py file, with credential and service in order: the run ends
\* without a request.
C6_Witness ==
    /\ pc = "exit"
    /\ ArgsOk
    /\ stdout = <<MsgEmpty>>
    /\ credential
    /\ service.outcome = "ok"
    /\ requests = 0

\* ------------------------------------------------------------------ C7
\* C7: the exit status is 0 exactly when the review was obtained and
\* printed, and 1 on every failure (argument count, source file, remote
\* service, client set-up); on every failure a diagnostic is printed and the
\* bordered review block is not.
C7_ExitStatus ==
    pc = "exit" =>
        LET success == /\ ArgsOk
                       /\ ~LoaderRejects
                       /\ credential
                       /\ service.outcome = "ok"
        IN  /\ exit_status \in {0, 1}
            /\ exit_status = 0 <=> success
            /\ exit_status = 0 <=>
                  /\ requests = 1
                  /\ service.outcome = "ok"
                  /\ review = service.completion
                  /\ Len(stdout) >= 6
                  /\ SubSeq(stdout, Len(stdout) - 5, Len(stdout)) =
                        <<Separator, MsgHeader, MsgModel, Separator, review, Separator>>
            /\ exit_status = 1 => DiagnosticPrinted /\ ~BlockPrinted
            /\ exit_status = 0 => ~DiagnosticPrinted
            /\ ~ArgsOk => stdout = <<MsgUsage>> /\ exit_status = 1

\* The client cannot be set up: status 1, the traceback is the diagnostic.
C7_Witness ==
    /\ pc = "exit"
    /\ ~credential
    /\ Contains(stdout, MsgReviewing)
    /\ uncaught = "OpenAIError"
    /\ exit_status = 1

====
